---- MODULE Spec2Model ----
(***************************************************************************)
(* Model of train.py: the run orchestrator main(), the training loop       *)
(* train() and the validation loop val(), with the two persisted files     *)
(* (latest checkpoint, best model) that survive from one run to the next.  *)
(***************************************************************************)
EXTENDS Integers, Sequences, FiniteSets, TLC

(* ------------------------------ bounds -------------------------------- *)
MaxEpochs == 3          \* largest --num_epochs
MaxStep == 2            \* largest --checkpoint_step and --validation_step
NumTrainBatches == 2    \* len(dataloader_train)
MaxValBatches == 2      \* largest len(dataloader_val)
MaxPixels == 1          \* most pixels of one (cropped) image given to val directly
MaxValCalls == 2        \* most calls of val in a row given inputs directly
MaxCount == 1           \* largest entry of a confusion matrix given to the metric directly

(* ----------------------------- constants ------------------------------ *)
\* the value of every absent object (Python None, an unbound local, no file)
None == [none |-> TRUE]

\* the option values the runs are given
OptimizerNames == {"sgd", "foo"}
LossNames == {"dice", "crossentropy", "foo"}

\* the classes a prediction can name
Classes(n) == 0 .. n - 1
\* class indices a label pixel can carry; n is one past the range [0, n)
LabelValues(n) == 0 .. n

(* ------------------------- exact arithmetic --------------------------- *)
\* floats are modelled as reduced fractions <<n, d>>, NaN as <<0, 0>>
NaN == <<0, 0>>

RECURSIVE GCD(_, _)
GCD(a, b) == IF b = 0 THEN a ELSE GCD(b, a % b)

\* (the arguments are bound to their values through a singleton set, so
\* that each is evaluated once)
Rat(n, d) ==
  CHOOSE r \in {IF y = 0 THEN NaN ELSE <<x \div GCD(x, y), y \div GCD(x, y)>> :
                  x \in {n}, y \in {d}} : TRUE

IsNaN(a) == a[2] = 0

RatAdd(a, b) ==
  CHOOSE r \in {IF IsNaN(x) \/ IsNaN(y) THEN NaN
                  ELSE Rat(x[1] * y[2] + y[1] * x[2], x[2] * y[2]) :
                  x \in {a}, y \in {b}} : TRUE

\* a > b on floats: every comparison with NaN is false
RatGt(a, b) == ~IsNaN(a) /\ ~IsNaN(b) /\ a[1] * b[2] > b[1] * a[2]

RECURSIVE RatSum(_)
RatSum(s) == IF s = <<>> THEN <<0, 1>> ELSE RatAdd(s[1], RatSum(Tail(s)))

\* np.mean: NaN for an empty list, NaN if any element is NaN
np_mean(s) ==
  CHOOSE r \in {IF s = <<>> \/ IsNaN(t) THEN NaN ELSE Rat(t[1], t[2] * Len(s)) :
                  t \in {RatSum(s)}} : TRUE

(* --------------------------- metric engine ---------------------------- *)
\* one-hot vector of depth n for class c (position c + 1 holds the 1)
OneHot(c, n) == [k \in 1 .. n |-> IF k = c + 1 THEN 1 ELSE 0]

\* arg-max over the class dimension: first position of the largest score
reverse_one_hot(v) ==
  (CHOOSE k \in 1 .. Len(v) :
     /\ \A j \in 1 .. Len(v) : v[j] <= v[k]
     /\ \A j \in 1 .. k - 1 : v[j] < v[k]) - 1

\* fraction of positions where prediction and label agree
compute_global_accuracy(pred, label) ==
  Rat(Cardinality({k \in 1 .. Len(pred) : pred[k] = label[k]}), Len(pred))

\* confusion matrix of one image: rows are labels, columns predictions;
\* positions whose label is outside [0, n) are left out
fast_hist(label, pred, n) ==
  [i \in 0 .. n - 1 |-> [j \in 0 .. n - 1 |->
     Cardinality({k \in 1 .. Len(label) :
        label[k] >= 0 /\ label[k] < n /\ label[k] = i /\ pred[k] = j})]]

ZeroHist(n) == [i \in 0 .. n - 1 |-> [j \in 0 .. n - 1 |-> 0]]

HistAdd(h, g) == [i \in DOMAIN h |-> [j \in DOMAIN h[i] |-> h[i][j] + g[i][j]]]

RECURSIVE SumOver(_, _)
SumOver(f, S) ==
  IF S = {} THEN 0
  ELSE LET x == CHOOSE y \in S : TRUE IN f[x] + SumOver(f, S \ {x})

RowSum(h, i) == SumOver(h[i], DOMAIN h[i])
ColSum(h, i) == SumOver([r \in DOMAIN h |-> h[r][i]], DOMAIN h)
HistTotal(h) == SumOver([r \in DOMAIN h |-> RowSum(h, r)], DOMAIN h)

\* IoU of every class as a sequence (class i at position i + 1)
per_class_iu(h) ==
  [k \in 1 .. Cardinality(DOMAIN h) |->
     Rat(h[k - 1][k - 1], RowSum(h, k - 1) + ColSum(h, k - 1) - h[k - 1][k - 1])]

\* slip: the mean over every class (line 48, commented out in the source)
MeanIoUAllClasses(h) == np_mean(per_class_iu(h))

\* val, lines 49-51: per_class_iu(hist)[:-1] followed by np.mean
MeanIoU(h) ==
  LET iu == per_class_iu(h) IN np_mean(SubSeq(iu, 1, Len(iu) - 1))

(* ---------------------------- scheduler ------------------------------- *)
\* the rate lr0 * (1 - iter/max_iter)^0.9, kept symbolically
poly_lr_scheduler(iter, max_iter) == [iter |-> iter, max_iter |-> max_iter]

\* args.learning_rate before any scheduler call
BaseLr == [iter |-> 0, max_iter |-> 0]

\* the base 1 - iter/max_iter of the formula; the rate before any scheduler
\* call is lr0 itself (base 1)
PolyBase(lr) ==
  IF lr.max_iter = 0 THEN <<1, 1>> ELSE Rat(lr.max_iter - lr.iter, lr.max_iter)

\* the applied rate on the scale of bases: x |-> lr0 * x^0.9 is increasing on
\* [0, 1] for lr0 > 0, so a floor on the rate is a floor m on the base
AppliedBase(lr, m) == IF RatGt(m, PolyBase(lr)) THEN m ELSE PolyBase(lr)

(* --------------------------- collaborators ---------------------------- *)
SupportedOptimizers == {"rmsprop", "sgd", "adam"}
SupportedLosses == {"dice", "crossentropy"}

\* the label of one pixel as the dataset hands it over: one-hot under the
\* dice loss, a class index otherwise
Encode(loss, c, n) == IF loss = "dice" THEN OneHot(c, n + 1) ELSE c

\* the label maps the validation loader can yield: px pixels, n classes
Labels(loss, n, px) == [1 .. px -> {Encode(loss, c, n) : c \in LabelValues(n)}]

\* inference-mode output for one image: per-pixel class scores
ModelOutputs(n, px) == [1 .. px -> {OneHot(c, n) : c \in Classes(n)}]

\* model.module.state_dict(): parameter names carry no wrapper prefix
module_state_dict(m) == [prefix |-> "", params |-> m.params]

Configs ==
  [num_epochs : 0 .. MaxEpochs,
   checkpoint_step : 1 .. MaxStep,
   validation_step : 1 .. MaxStep,
   optimizer : OptimizerNames,
   loss : LossNames,
   pretrained_model_path : {"None", "latest"},
   num_classes : {2},
   crop : {1}]

(* ------------------------------ state --------------------------------- *)
VARIABLES
  pc,               \* position of the process in main / train / val
  error,            \* the uncaught exception that ended the run, or "none"
  run,              \* "original" or "rerun"
  args,             \* the parsed RunConfig
  model,            \* [wrapped, params, training]
  optimizer,        \* [state |-> [steps, lr]]
  scaler,           \* number of GradScaler updates
  loaded_checkpoint,
  curr_epoch,
  loss_func,
  max_miou,
  step,
  epoch,
  i,                \* batches of the current epoch consumed so far
  caller,           \* who called val: "train" or "main"
  val_left,         \* images the validation iterator has still to yield
  hist,
  precision_record,
  result,           \* (precision, miou) returned by the last val call
  latest,           \* file latest_dice_loss.pth
  best,             \* file best_dice_loss.pth
  \* history variables
  executed,         \* epochs the training loop has begun in this run
  forwards,         \* training forward passes of this run
  sched_calls,      \* scheduler calls of this run
  val_epochs,       \* epochs at which train called val, in order
  best_writes,      \* writes of the best file in this run
  ckpt_epochs,      \* epochs at which the latest file was written in this run
  nvals,            \* val calls of this run
  pixels,           \* pixels the current val pass has consumed
  seen,             \* the (label, prediction) pairs of a recorded val pass
  saved             \* live (epoch, params, optimizer state) at the last checkpoint write

proc_but_pc == <<error, args, model, optimizer, scaler, loaded_checkpoint, curr_epoch,
                 loss_func, max_miou, step, epoch, i>>
proc == <<pc, error, args, model, optimizer, scaler, loaded_checkpoint, curr_epoch,
          loss_func, max_miou, step, epoch, i>>
valv == <<caller, val_left, hist, precision_record, result, pixels>>
files == <<latest, best, saved>>
ghost == <<executed, forwards, sched_calls, val_epochs, best_writes,
           ckpt_epochs, nvals>>
vars == <<run, proc, valv, seen, files, ghost>>

(* ------------------------------ Init ---------------------------------- *)
Init ==
  /\ run = "original"
  /\ latest = None
  /\ best = None
  /\ saved = None
  /\ pc = "start"
  /\ error = "none"
  /\ args = None
  /\ model = None
  /\ optimizer = None
  /\ scaler = 0
  /\ loaded_checkpoint = None
  /\ curr_epoch = 0
  /\ loss_func = "unbound"
  /\ max_miou = <<0, 1>>
  /\ step = 0
  /\ epoch = 0
  /\ i = 0
  /\ caller = "none"
  /\ val_left = 0
  /\ hist = <<>>
  /\ precision_record = <<>>
  /\ result = None
  /\ pixels = 0
  /\ seen = <<>>
  /\ executed = <<>>
  /\ forwards = 0
  /\ sched_calls = 0
  /\ val_epochs = <<>>
  /\ best_writes = 0
  /\ ckpt_epochs = <<>>
  /\ nvals = 0

(* --------------------------- orchestrator ----------------------------- *)
\* an uncaught exception ends the process
Raise(e) == pc' = "crashed" /\ error' = e

\* main, lines 145-201: parse the options, build the two data loaders
Main_Parse ==
  /\ pc = "start"
  /\ \E a \in Configs : args' = a
  /\ pc' = "build_model"
  /\ UNCHANGED <<run, error, model, optimizer, scaler, loaded_checkpoint, curr_epoch,
                 loss_func, max_miou, step, epoch, i, valv, seen, files, ghost>>

\* main, lines 203-207: the model is wrapped for multi-device execution when
\* torch.cuda.is_available() and args.use_gpu
BuildModel ==
  /\ pc = "build_model"
  /\ \E cuda_and_use_gpu \in BOOLEAN :
       model' = [wrapped |-> cuda_and_use_gpu, params |-> 0, training |-> TRUE]
  /\ pc' = "build_optimizer"
  /\ UNCHANGED <<run, error, args, optimizer, scaler, loaded_checkpoint, curr_epoch,
                 loss_func, max_miou, step, epoch, i, valv, seen, files, ghost>>

\* slip: an unsupported name falls back to a default optimizer
BuildOptimizerFallback ==
  /\ pc = "build_optimizer"
  /\ optimizer' = [state |-> [steps |-> 0, lr |-> BaseLr]]
  /\ pc' = "load"
  /\ UNCHANGED <<run, error, args, model, scaler, loaded_checkpoint, curr_epoch,
                 loss_func, max_miou, step, epoch, i, valv, seen, files, ghost>>

\* main, lines 209-218
BuildOptimizer ==
  /\ pc = "build_optimizer"
  /\ IF args.optimizer \in SupportedOptimizers
     THEN /\ optimizer' = [state |-> [steps |-> 0, lr |-> BaseLr]]
          /\ pc' = "load"
     ELSE /\ pc' = "returned"
          /\ UNCHANGED optimizer
  /\ UNCHANGED <<run, error, args, model, scaler, loaded_checkpoint, curr_epoch,
                 loss_func, max_miou, step, epoch, i, valv, seen, files, ghost>>

\* slip: the stored epoch is taken as the restored counter
ResumeEpochSame(checkpoint) == checkpoint.epoch

\* main, line 229: the epoch counter restored from a checkpoint
ResumeEpoch(checkpoint) == checkpoint.epoch + 1

\* main, lines 220-233
LoadCheckpoint ==
  /\ pc = "load"
  /\ IF args.pretrained_model_path = "None"
     THEN /\ curr_epoch' = 0
          /\ pc' = "train"
          /\ UNCHANGED <<error, model, optimizer, loaded_checkpoint>>
     ELSE IF latest = None
     THEN /\ Raise("FileNotFoundError:226")
          /\ UNCHANGED <<model, optimizer, loaded_checkpoint, curr_epoch>>
     ELSE /\ loaded_checkpoint' = latest
          /\ IF ~model.wrapped
             THEN /\ Raise("AttributeError:227")
                  /\ UNCHANGED <<model, optimizer, curr_epoch>>
             ELSE IF latest.model_state_dict.prefix # ""
             THEN /\ Raise("RuntimeError:227")
                  /\ UNCHANGED <<model, optimizer, curr_epoch>>
             ELSE /\ model' = [model EXCEPT !.params = latest.model_state_dict.params]
                  /\ optimizer' = [optimizer EXCEPT !.state = latest.optimizer_state_dict]
                  /\ curr_epoch' = ResumeEpoch(latest)
                  /\ pc' = "train"
                  /\ UNCHANGED error
  /\ UNCHANGED <<run, args, scaler, loss_func, max_miou, step, epoch, i, valv, seen,
                 files, ghost>>

\* main, line 238: the final validation
FinalVal ==
  /\ pc = "final_val"
  /\ caller' = "main"
  /\ pc' = "val"
  /\ UNCHANGED <<run, proc_but_pc, val_left, hist, precision_record, result, pixels,
                 seen, files, ghost>>


(* --------------------------- training loop ---------------------------- *)
\* slip: an existing best-model file sets the maximum to beat
TrainInitKeepsBest ==
  /\ pc = "train"
  /\ scaler' = 0
  /\ loss_func' = IF args.loss \in SupportedLosses THEN args.loss ELSE "unbound"
  /\ max_miou' = IF best = None THEN <<0, 1>> ELSE <<1, 1>>
  /\ step' = 0
  /\ epoch' = curr_epoch
  /\ pc' = "epoch_loop"
  /\ UNCHANGED <<run, error, args, model, optimizer, loaded_checkpoint, curr_epoch, i,
                 caller, val_left, hist, precision_record, result, pixels, seen,
                 latest, best, saved, executed, forwards, sched_calls, val_epochs,
                 best_writes, ckpt_epochs, nvals>>

\* train, lines 65-74
TrainInit ==
  /\ pc = "train"
  /\ scaler' = 0
  /\ loss_func' = IF args.loss \in SupportedLosses THEN args.loss ELSE "unbound"
  /\ max_miou' = <<0, 1>>
  /\ step' = 0
  /\ epoch' = curr_epoch
  /\ pc' = "epoch_loop"
  /\ UNCHANGED <<run, error, args, model, optimizer, loaded_checkpoint, curr_epoch, i,
                 caller, val_left, hist, precision_record, result, pixels, seen,
                 latest, best, saved, executed, forwards, sched_calls, val_epochs,
                 best_writes, ckpt_epochs, nvals>>

\* slip: the scheduler is given the epoch counted from 0
EpochBeginFromZero ==
  /\ pc = "epoch_loop"
  /\ epoch + 1 <= args.num_epochs
  /\ epoch' = epoch + 1
  /\ optimizer' = [optimizer EXCEPT
                     !.state.lr = poly_lr_scheduler(epoch - curr_epoch, args.num_epochs)]
  /\ sched_calls' = sched_calls + 1
  /\ model' = [model EXCEPT !.training = TRUE]
  /\ i' = 0
  /\ executed' = Append(executed, epoch + 1)
  /\ pc' = "batches"
  /\ UNCHANGED <<run, error, args, scaler, loaded_checkpoint, curr_epoch, loss_func,
                 max_miou, step, caller, val_left, hist, precision_record, result,
                 pixels, seen, latest, best, saved, forwards, val_epochs, best_writes, ckpt_epochs, nvals>>

\* slip: the scheduler is called for the first epoch of the invocation only
EpochBeginScheduleOnce ==
  /\ pc = "epoch_loop"
  /\ epoch + 1 <= args.num_epochs
  /\ epoch' = epoch + 1
  /\ optimizer' = IF executed = <<>>
                  THEN [optimizer EXCEPT
                          !.state.lr = poly_lr_scheduler(epoch + 1, args.num_epochs)]
                  ELSE optimizer
  /\ sched_calls' = IF executed = <<>> THEN sched_calls + 1 ELSE sched_calls
  /\ model' = [model EXCEPT !.training = TRUE]
  /\ i' = 0
  /\ executed' = Append(executed, epoch + 1)
  /\ pc' = "batches"
  /\ UNCHANGED <<run, error, args, scaler, loaded_checkpoint, curr_epoch, loss_func,
                 max_miou, step, caller, val_left, hist, precision_record, result,
                 pixels, seen, latest, best, saved, forwards, val_epochs, best_writes, ckpt_epochs, nvals>>

\* slip: model.train() is left out
EpochBeginNoTrainMode ==
  /\ pc = "epoch_loop"
  /\ epoch + 1 <= args.num_epochs
  /\ epoch' = epoch + 1
  /\ optimizer' = [optimizer EXCEPT
                     !.state.lr = poly_lr_scheduler(epoch + 1, args.num_epochs)]
  /\ sched_calls' = sched_calls + 1
  /\ UNCHANGED model
  /\ i' = 0
  /\ executed' = Append(executed, epoch + 1)
  /\ pc' = "batches"
  /\ UNCHANGED <<run, error, args, scaler, loaded_checkpoint, curr_epoch, loss_func,
                 max_miou, step, caller, val_left, hist, precision_record, result,
                 pixels, seen, latest, best, saved, forwards, val_epochs, best_writes, ckpt_epochs, nvals>>

\* train, lines 76-82: the next value of range(curr_epoch + 1, num_epochs + 1);
\* the scheduler sets the rate, the model goes to training mode
EpochBegin ==
  /\ pc = "epoch_loop"
  /\ epoch + 1 <= args.num_epochs
  /\ epoch' = epoch + 1
  /\ optimizer' = [optimizer EXCEPT
                     !.state.lr = poly_lr_scheduler(epoch + 1, args.num_epochs)]
  /\ sched_calls' = sched_calls + 1
  /\ model' = [model EXCEPT !.training = TRUE]
  /\ i' = 0
  /\ executed' = Append(executed, epoch + 1)
  /\ pc' = "batches"
  /\ UNCHANGED <<run, error, args, scaler, loaded_checkpoint, curr_epoch, loss_func,
                 max_miou, step, caller, val_left, hist, precision_record, result,
                 pixels, seen, latest, best, saved, forwards, val_epochs, best_writes, ckpt_epochs, nvals>>

\* slip: main ends when train returns, without the final validation
TrainReturnNoFinalVal ==
  /\ pc = "epoch_loop"
  /\ epoch + 1 > args.num_epochs
  /\ pc' = "done"
  /\ UNCHANGED <<run, error, args, model, optimizer, scaler, loaded_checkpoint,
                 curr_epoch, loss_func, max_miou, step, epoch, i, caller, val_left,
                 hist, precision_record, result, pixels, seen, latest, best, saved,
                 executed, forwards, sched_calls, val_epochs, best_writes,
                 ckpt_epochs, nvals>>

\* train, line 76 with the range exhausted: train returns to main
TrainReturn ==
  /\ pc = "epoch_loop"
  /\ epoch + 1 > args.num_epochs
  /\ pc' = "final_val"
  /\ UNCHANGED <<run, error, args, model, optimizer, scaler, loaded_checkpoint,
                 curr_epoch, loss_func, max_miou, step, epoch, i, caller, val_left,
                 hist, precision_record, result, pixels, seen, latest, best, saved,
                 executed, forwards, sched_calls, val_epochs, best_writes,
                 ckpt_epochs, nvals>>

\* train, lines 84-108: one batch
BatchStep ==
  /\ pc = "batches"
  /\ i < NumTrainBatches
  /\ forwards' = forwards + 1
  /\ IF loss_func = "unbound"
     THEN /\ Raise("UnboundLocalError:92")
          /\ UNCHANGED <<model, optimizer, scaler, step, i>>
     ELSE /\ model' = [model EXCEPT !.params = @ + 1]
          /\ optimizer' = [optimizer EXCEPT !.state.steps = @ + 1]
          /\ step' = step + 1
          /\ scaler' = scaler + 1
          /\ i' = i + 1
          /\ UNCHANGED <<pc, error>>
  /\ UNCHANGED <<run, args, loaded_checkpoint, curr_epoch, loss_func, max_miou, epoch,
                 caller, val_left, hist, precision_record, result, pixels, seen,
                 latest, best, saved, executed, sched_calls, val_epochs, best_writes, ckpt_epochs, nvals>>

\* train, lines 109-113: the batches of the epoch are consumed
EpochEnd ==
  /\ pc = "batches"
  /\ i = NumTrainBatches
  /\ pc' = "checkpoint"
  /\ UNCHANGED <<run, error, args, model, optimizer, scaler, loaded_checkpoint,
                 curr_epoch, loss_func, max_miou, step, epoch, i, caller, val_left,
                 hist, precision_record, result, pixels, seen, latest, best, saved,
                 executed, forwards, sched_calls, val_epochs, best_writes,
                 ckpt_epochs, nvals>>

\* train, lines 122-126: the record torch.save writes
CheckpointRecord(e, m, o) ==
  [epoch |-> e, model_state_dict |-> module_state_dict(m),
   optimizer_state_dict |-> o.state]

\* train, lines 115-131
Checkpoint ==
  /\ pc = "checkpoint"
  /\ IF epoch % args.checkpoint_step = 0 /\ epoch # 0
     THEN IF ~model.wrapped
          THEN /\ Raise("AttributeError:124")
               /\ UNCHANGED <<latest, saved, ckpt_epochs>>
          ELSE /\ latest' = CheckpointRecord(epoch, model, optimizer)
               /\ saved' = [epoch |-> epoch, params |-> model.params,
                            optimizer |-> optimizer.state]
               /\ ckpt_epochs' = Append(ckpt_epochs, epoch)
               /\ pc' = "validation"
               /\ UNCHANGED error
     ELSE /\ pc' = "validation"
          /\ UNCHANGED <<error, latest, saved, ckpt_epochs>>
  /\ UNCHANGED <<run, args, model, optimizer, scaler, loaded_checkpoint, curr_epoch,
                 loss_func, max_miou, step, epoch, i, caller, val_left, hist,
                 precision_record, result, pixels, seen, best, executed, forwards,
                 sched_calls, val_epochs, best_writes, nvals>>

\* train, lines 133-135: the validation cadence
Validation ==
  /\ pc = "validation"
  /\ IF epoch % args.validation_step = 0 /\ epoch # 0
     THEN /\ caller' = "train"
          /\ val_epochs' = Append(val_epochs, epoch)
          /\ pc' = "val"
     ELSE /\ pc' = "epoch_loop"
          /\ UNCHANGED <<caller, val_epochs>>
  /\ UNCHANGED <<run, error, args, model, optimizer, scaler, loaded_checkpoint,
                 curr_epoch, loss_func, max_miou, step, epoch, i, val_left, hist,
                 precision_record, result, pixels, seen, latest, best, saved, executed,
                 forwards, sched_calls, best_writes, ckpt_epochs, nvals>>

\* slip: every validation result is taken as the new best
IsNewBestAlways(miou, max) == TRUE

\* train, line 136
IsNewBest(miou, max) == RatGt(miou, max)

\* train, lines 136-142: val has returned (precision, miou); its frame is gone
BestUpdate ==
  /\ pc = "best"
  /\ IF IsNewBest(result.miou, max_miou)
     THEN /\ max_miou' = result.miou
          /\ IF ~model.wrapped
             THEN /\ Raise("AttributeError:139")
                  /\ UNCHANGED <<best, best_writes>>
             ELSE /\ best' = module_state_dict(model)
                  /\ best_writes' = best_writes + 1
                  /\ pc' = "epoch_loop"
                  /\ UNCHANGED error
     ELSE /\ pc' = "epoch_loop"
          /\ UNCHANGED <<error, max_miou, best, best_writes>>
  /\ hist' = <<>>
  /\ precision_record' = <<>>
  /\ pixels' = 0
  /\ result' = None
  /\ UNCHANGED <<run, args, model, optimizer, scaler, loaded_checkpoint, curr_epoch,
                 loss_func, step, epoch, i, caller, val_left, seen, latest, saved,
                 executed, forwards, sched_calls, val_epochs, ckpt_epochs, nvals>>

(* -------------------------- validation loop --------------------------- *)
\* slip: the accumulators are module-level and are created only once
ValBeginNoReset ==
  /\ pc = "val"
  /\ model' = [model EXCEPT !.training = FALSE]
  /\ precision_record' = precision_record
  /\ hist' = IF hist = <<>> THEN ZeroHist(args.num_classes) ELSE hist
  /\ \E n \in 0 .. MaxValBatches : val_left' = n
  /\ pixels' = 0
  /\ nvals' = nvals + 1
  /\ pc' = "val_loop"
  /\ UNCHANGED <<run, error, args, optimizer, scaler, loaded_checkpoint, curr_epoch,
                 loss_func, max_miou, step, epoch, i, caller, result, seen, latest,
                 best, saved, executed, forwards, sched_calls, val_epochs, best_writes, ckpt_epochs>>

\* val, lines 17-25: inference mode, fresh accumulators, a fresh iterator over
\* the loader
ValBegin ==
  /\ pc = "val"
  /\ model' = [model EXCEPT !.training = FALSE]
  /\ precision_record' = <<>>
  /\ hist' = ZeroHist(args.num_classes)
  /\ \E n \in 0 .. MaxValBatches : val_left' = n
  /\ pixels' = 0
  /\ nvals' = nvals + 1
  /\ pc' = "val_loop"
  /\ UNCHANGED <<run, error, args, optimizer, scaler, loaded_checkpoint, curr_epoch,
                 loss_func, max_miou, step, epoch, i, caller, result, seen, latest,
                 best, saved, executed, forwards, sched_calls, val_epochs, best_writes, ckpt_epochs>>

\* val, lines 31-33
Predict(out) == [k \in 1 .. Len(out) |-> reverse_one_hot(out[k])]

\* val, lines 36-39
Decode(loss, raw) ==
  IF loss = "dice" THEN [k \in 1 .. Len(raw) |-> reverse_one_hot(raw[k])] ELSE raw

\* slip: "hist = fast_hist(...)" for "hist += fast_hist(...)"
AccumulateOverwrite(h, label, predict, n) == fast_hist(label, predict, n)

\* val, line 44: the confusion matrix after one more image
Accumulate(h, label, predict, n) == HistAdd(h, fast_hist(label, predict, n))

\* val, lines 25-46: the loop body for the image (raw label map, model output)
ValBody(raw, out) ==
  /\ pc = "val_loop"
  /\ val_left > 0
  /\ hist' = Accumulate(hist, Decode(args.loss, raw), Predict(out), args.num_classes)
  /\ precision_record' =
       Append(precision_record,
              compute_global_accuracy(Predict(out), Decode(args.loss, raw)))
  /\ pixels' = pixels + Len(raw)
  /\ val_left' = val_left - 1
  /\ UNCHANGED <<run, proc, caller, result, files, ghost>>

ValBatch ==
  /\ pc = "val_loop"
  /\ \E raw \in Labels(args.loss, args.num_classes, args.crop),
        out \in ModelOutputs(args.num_classes, args.crop) :
       ValBody(raw, out) /\ UNCHANGED seen

\* slip: val puts the model back into training mode before it returns
ValEndRestoresMode ==
  /\ pc = "val_loop"
  /\ val_left = 0
  /\ result' = [precision |-> np_mean(precision_record), miou |-> MeanIoU(hist)]
  /\ model' = [model EXCEPT !.training = TRUE]
  /\ pc' = IF caller = "train" THEN "best" ELSE "done"
  /\ UNCHANGED <<run, error, args, optimizer, scaler, loaded_checkpoint,
                 curr_epoch, loss_func, max_miou, step, epoch, i, caller, val_left,
                 hist, precision_record, pixels, seen, latest, best, saved, executed,
                 forwards, sched_calls, val_epochs, best_writes,
                 ckpt_epochs, nvals>>

\* val, lines 47-62: the aggregate metrics are returned to the caller
ValEnd ==
  /\ pc = "val_loop"
  /\ val_left = 0
  /\ result' = [precision |-> np_mean(precision_record), miou |-> MeanIoU(hist)]
  /\ pc' = IF caller = "train" THEN "best" ELSE "done"
  /\ UNCHANGED <<run, error, args, model, optimizer, scaler, loaded_checkpoint,
                 curr_epoch, loss_func, max_miou, step, epoch, i, caller, val_left,
                 hist, precision_record, pixels, seen, latest, best, saved, executed,
                 forwards, sched_calls, val_epochs, best_writes,
                 ckpt_epochs, nvals>>

(* ------------------------------ runs ---------------------------------- *)
\* the process has ended; the command is run again, the files are still there
Restart ==
  /\ pc \in {"done", "returned", "crashed"}
  /\ run = "original"
  /\ run' = "rerun"
  /\ pc' = "start"
  /\ error' = "none"
  /\ args' = None
  /\ model' = None
  /\ optimizer' = None
  /\ scaler' = 0
  /\ loaded_checkpoint' = None
  /\ curr_epoch' = 0
  /\ loss_func' = "unbound"
  /\ max_miou' = <<0, 1>>
  /\ step' = 0
  /\ epoch' = 0
  /\ i' = 0
  /\ caller' = "none"
  /\ val_left' = 0
  /\ hist' = <<>>
  /\ precision_record' = <<>>
  /\ result' = None
  /\ pixels' = 0
  /\ seen' = <<>>
  /\ executed' = <<>>
  /\ forwards' = 0
  /\ sched_calls' = 0
  /\ val_epochs' = <<>>
  /\ best_writes' = 0
  /\ ckpt_epochs' = <<>>
  /\ nvals' = 0
  /\ UNCHANGED files

Next ==
  \/ Main_Parse
  \/ BuildModel
  \/ BuildOptimizer
  \/ LoadCheckpoint
  \/ TrainInit
  \/ EpochBegin
  \/ BatchStep
  \/ EpochEnd
  \/ Checkpoint
  \/ Validation
  \/ ValBegin
  \/ ValBatch
  \/ ValEnd
  \/ BestUpdate
  \/ TrainReturn
  \/ FinalVal
  \/ Restart

Spec == Init /\ [][Next]_vars

\* the process keeps running until main returns or an exception ends it
FairSpec == Spec /\ WF_vars(Next)


(* ------------------- val on inputs given directly --------------------- *)
\* ValBatch with the consumed (label, prediction) pair recorded
ValBatchRec ==
  /\ pc = "val_loop"
  /\ \E raw \in Labels(args.loss, args.num_classes, args.crop),
        out \in ModelOutputs(args.num_classes, args.crop) :
       /\ ValBody(raw, out)
       /\ seen' = Append(seen, [label |-> Decode(args.loss, raw),
                                predict |-> Predict(out)])

\* main has reached line 238 without training an epoch; the validation set
\* has images of 1 .. MaxPixels pixels
InitVal ==
  /\ run = "original"
  /\ latest = None
  /\ best = None
  /\ saved = None
  /\ pc = "val"
  /\ error = "none"
  /\ \E l \in LossNames, px \in 1 .. MaxPixels :
       args = [num_epochs |-> 0, checkpoint_step |-> 1, validation_step |-> 1,
               optimizer |-> "sgd", loss |-> l, pretrained_model_path |-> "None",
               num_classes |-> 2, crop |-> px]
  /\ \E w \in BOOLEAN : model = [wrapped |-> w, params |-> 0, training |-> TRUE]
  /\ optimizer = [state |-> [steps |-> 0, lr |-> BaseLr]]
  /\ scaler = 0
  /\ loaded_checkpoint = None
  /\ curr_epoch = 0
  /\ loss_func = IF args.loss \in SupportedLosses THEN args.loss ELSE "unbound"
  /\ max_miou = <<0, 1>>
  /\ step = 0
  /\ epoch = 0
  /\ i = 0
  /\ caller = "main"
  /\ val_left = 0
  /\ hist = <<>>
  /\ precision_record = <<>>
  /\ result = None
  /\ pixels = 0
  /\ seen = <<>>
  /\ executed = <<>>
  /\ forwards = 0
  /\ sched_calls = 0
  /\ val_epochs = <<>>
  /\ best_writes = 0
  /\ ckpt_epochs = <<>>
  /\ nvals = 0

NextVal ==
  \/ ValBegin
  \/ ValBatchRec
  \/ ValEnd

SpecVal == InitVal /\ [][NextVal]_vars

\* val is called once more (train line 135, then main line 238); what the
\* previous call left in its frame is still in memory
ValAgain ==
  /\ pc = "done"
  /\ nvals < MaxValCalls
  /\ pc' = "val"
  /\ seen' = <<>>
  /\ UNCHANGED <<run, proc_but_pc, valv, files, ghost>>

NextReval ==
  \/ ValBegin
  \/ ValBatchRec
  \/ ValEnd
  \/ ValAgain

SpecReval == InitVal /\ [][NextReval]_vars

(* ---------------- the metric on matrices given directly ---------------- *)
\* the confusion matrix of the end-to-end scenario
Example == [r \in 0 .. 1 |-> [c \in 0 .. 1 |->
              IF r = 0 THEN (IF c = 0 THEN 8 ELSE 2) ELSE (IF c = 0 THEN 1 ELSE 9)]]

Matrices(n) == [0 .. n - 1 -> [0 .. n - 1 -> 0 .. MaxCount]]

Trace(h) == SumOver([r \in DOMAIN h |-> h[r][r]], DOMAIN h)

\* val's loop has consumed one image whose in-range pixels give the matrix h
InitIoU ==
  /\ run = "original"
  /\ latest = None
  /\ best = None
  /\ saved = None
  /\ pc = "val_loop"
  /\ error = "none"
  /\ hist \in Matrices(2) \cup Matrices(3) \cup {Example}
  /\ args = [num_epochs |-> 0, checkpoint_step |-> 1, validation_step |-> 1,
             optimizer |-> "sgd", loss |-> "crossentropy",
             pretrained_model_path |-> "None",
             num_classes |-> Cardinality(DOMAIN hist), crop |-> HistTotal(hist)]
  /\ model = [wrapped |-> TRUE, params |-> 0, training |-> FALSE]
  /\ optimizer = [state |-> [steps |-> 0, lr |-> BaseLr]]
  /\ scaler = 0
  /\ loaded_checkpoint = None
  /\ curr_epoch = 0
  /\ loss_func = "crossentropy"
  /\ max_miou = <<0, 1>>
  /\ step = 0
  /\ epoch = 0
  /\ i = 0
  /\ caller = "main"
  /\ val_left = 0
  /\ precision_record = IF HistTotal(hist) = 0 THEN <<>>
                        ELSE <<Rat(Trace(hist), HistTotal(hist))>>
  /\ result = None
  /\ pixels = HistTotal(hist)
  /\ seen = <<>>
  /\ executed = <<>>
  /\ forwards = 0
  /\ sched_calls = 0
  /\ val_epochs = <<>>
  /\ best_writes = 0
  /\ ckpt_epochs = <<>>
  /\ nvals = 1

NextIoU == ValEnd

SpecIoU == InitIoU /\ [][NextIoU]_vars


(* ============================== claims ================================ *)
Last(s) == s[Len(s)]
Front(s) == SubSeq(s, 1, Len(s) - 1)

\* train has returned to main
TrainReturned ==
  pc = "final_val" \/ (caller = "main" /\ pc \in {"val", "val_loop", "done"})

\* the batches of the current epoch are consumed and control has left the
\* checkpoint block of lines 115-131
PastCheckpoint ==
  executed # <<>> /\ i = NumTrainBatches /\ pc \notin {"batches", "checkpoint"}

\* ... and has left the validation block of lines 133-142 as well
PastValidation ==
  PastCheckpoint /\ pc \notin {"validation", "val", "val_loop", "best"}

\* C1: a run resumed from a checkpoint whose epoch field is e < num_epochs
\* executes epoch e + 1 first.
C1_ResumeAtNextEpoch ==
  loaded_checkpoint # None =>
    /\ executed # <<>> => executed[1] = loaded_checkpoint.epoch + 1
    /\ (TrainReturned /\ loaded_checkpoint.epoch < args.num_epochs) => executed # <<>>

\* C2: at every validation of a train invocation the best-model file is
\* written if and only if the returned mean-IoU is strictly greater than the
\* maximum seen so far (a lower, equal or NaN value never writes it).
C2_BestWrittenIffGreater ==
  [][pc = "best" =>
       ((best_writes' = best_writes + 1 /\ best' = module_state_dict(model))
          <=> RatGt(result.miou, max_miou))]_vars

\* C3: with an unsupported optimizer name the run aborts before the training
\* loop: no batch step, no validation, no scheduler call, no file written.
C3_UnsupportedOptimizerAborts ==
  (args # None /\ args.optimizer \notin SupportedOptimizers) =>
    /\ pc \in {"build_model", "build_optimizer", "returned"}
    /\ error = "none"
    /\ executed = <<>> /\ forwards = 0 /\ step = 0
    /\ nvals = 0 /\ sched_calls = 0
    /\ ckpt_epochs = <<>> /\ best_writes = 0

C3_Witness ==
  pc = "returned" /\ args.optimizer = "foo" /\ model # None

\* C4: with a loss name other than dice and crossentropy the run aborts
\* before the first epoch begins: no scheduler call, no forward pass.
C4_UnsupportedLossAbortsBeforeTraining ==
  (args # None /\ args.loss \notin SupportedLosses) =>
    executed = <<>> /\ sched_calls = 0 /\ forwards = 0

\* C5: once the orchestrator has loaded a checkpoint that the training loop
\* wrote at epoch e with model state M and optimizer state O, curr_epoch is
\* e + 1 and the model and optimizer states are M and O.
C5_CheckpointRoundTrip ==
  (pc = "train" /\ loaded_checkpoint # None) =>
    /\ curr_epoch = saved.epoch + 1
    /\ model.params = saved.params
    /\ optimizer.state = saved.optimizer

C5_Witness ==
  /\ pc = "train" /\ loaded_checkpoint # None
  /\ saved.epoch = 2 /\ curr_epoch = 3
  /\ saved.params = 2 * NumTrainBatches /\ model.params = saved.params

\* C6: the latest checkpoint is overwritten at the end of an executed epoch e
\* exactly when e mod checkpoint_step = 0, with epoch field e and the model
\* and optimizer as they are after the batch steps of e; so its epoch field
\* is the largest executed epoch divisible by checkpoint_step.
C6_CheckpointEveryStep ==
  PastCheckpoint =>
    /\ (epoch % args.checkpoint_step = 0) <=>
         (ckpt_epochs # <<>> /\ Last(ckpt_epochs) = epoch)
    /\ (ckpt_epochs # <<>> /\ Last(ckpt_epochs) = epoch) =>
         latest = [epoch |-> epoch,
                   model_state_dict |-> [prefix |-> "", params |-> model.params],
                   optimizer_state_dict |-> optimizer.state]
    /\ \A k \in 1 .. Len(executed) :
         executed[k] % args.checkpoint_step = 0 =>
           (latest # None /\ latest.epoch >= executed[k])

\* C7: the training loop validates exactly the executed epochs e with
\* e mod validation_step = 0, and only between epochs: after the last batch
\* step of e and before the first batch step of the next epoch.
C7_ValidationEveryStep ==
  /\ (caller = "train" /\ pc \in {"val", "val_loop", "best"}) =>
       (i = NumTrainBatches /\ Last(val_epochs) = epoch)
  /\ \A k \in 1 .. Len(val_epochs) : val_epochs[k] % args.validation_step = 0
  /\ \A k \in 1 .. Len(executed) :
       (executed[k] % args.validation_step = 0
          /\ (k < Len(executed) \/ PastValidation)) =>
         \E j \in 1 .. Len(val_epochs) : val_epochs[j] = executed[k]

\* pixels of the consumed images whose label lies in [0, n)
RECURSIVE InRangePixels(_, _)
InRangePixels(s, n) ==
  IF s = <<>> THEN 0
  ELSE InRangePixels(Front(s), n)
       + Cardinality({k \in 1 .. Len(Last(s).label) :
                        Last(s).label[k] >= 0 /\ Last(s).label[k] < n})

InValPass == pc \in {"val_loop", "done"}

\* C8 as claimed: every entry of the confusion matrix is >= 0 and the entries
\* sum to the number of pixels validated so far, out-of-range labels included.
C8_SumIsAllPixels ==
  InValPass =>
    /\ \A r \in DOMAIN hist : \A c \in DOMAIN hist[r] : hist[r][c] >= 0
    /\ HistTotal(hist) = pixels

\* C8 as amended: every entry of the confusion matrix is >= 0 and the entries
\* sum to the number of pixels validated so far whose label lies in
\* [0, num_classes).
C8_SumIsInRangePixels ==
  InValPass =>
    /\ \A r \in DOMAIN hist : \A c \in DOMAIN hist[r] : hist[r][c] >= 0
    /\ HistTotal(hist) = InRangePixels(seen, args.num_classes)
    /\ HistTotal(hist) <= pixels

C8_Witness ==
  /\ InValPass /\ Len(seen) = 2
  /\ HistTotal(hist) > 0 /\ HistTotal(hist) < pixels

\* the confusion matrix val builds when it is given the images of s in order
RECURSIVE ValidateInOrder(_, _)
ValidateInOrder(s, n) ==
  IF s = <<>> THEN ZeroHist(n)
  ELSE Accumulate(ValidateInOrder(Front(s), n), Last(s).label, Last(s).predict, n)

Reorder(s, p) == [k \in 1 .. Len(s) |-> s[p[k]]]

\* C9: validating the same images in any other order gives the same
\* confusion matrix, and so the same mean-IoU.
C9_BatchOrderIrrelevant ==
  InValPass =>
    \A p \in Permutations(1 .. Len(seen)) :
      /\ ValidateInOrder(Reorder(seen, p), args.num_classes) = hist
      /\ pc = "done" =>
           result.miou = MeanIoU(ValidateInOrder(Reorder(seen, p), args.num_classes))

C9_Witness ==
  /\ pc = "done" /\ Len(seen) = 2
  /\ fast_hist(seen[1].label, seen[1].predict, args.num_classes)
       # fast_hist(seen[2].label, seen[2].predict, args.num_classes)
  /\ HistTotal(hist) = 2 * args.crop

Union(h, c) == RowSum(h, c) + ColSum(h, c) - h[c][c]

RECURSIVE ProdUnion(_, _)
ProdUnion(h, S) ==
  IF S = {} THEN 1
  ELSE LET c == CHOOSE x \in S : TRUE IN Union(h, c) * ProdUnion(h, S \ {c})

RECURSIVE CrossSum(_, _, _)
CrossSum(h, S, All) ==
  IF S = {} THEN 0
  ELSE LET c == CHOOSE x \in S : TRUE
       IN h[c][c] * ProdUnion(h, All \ {c}) + CrossSum(h, S \ {c}, All)

\* C10: the IoU of class c is m[c][c] / (row_sum(c) + col_sum(c) - m[c][c])
\* when that union is > 0 (8/11 and 9/12 for [[8,2],[1,9]]), and the mean-IoU
\* val returns is the mean of these over the classes 0 .. num_classes - 2.
C10_MeanIoUExcludesLastClass ==
  pc = "done" =>
    LET n == args.num_classes
        Kept == 0 .. n - 2
        iu == per_class_iu(hist)
    IN /\ \A c \in 0 .. n - 1 :
            Union(hist, c) > 0 =>
              (iu[c + 1][2] > 0 /\ iu[c + 1][1] * Union(hist, c) = hist[c][c] * iu[c + 1][2])
       /\ (\A c \in Kept : Union(hist, c) > 0) =>
            /\ result.miou[2] > 0
            /\ CrossSum(hist, Kept, Kept) * result.miou[2]
                 = result.miou[1] * (n - 1) * ProdUnion(hist, Kept)
       /\ hist = Example =>
            (iu = << <<8, 11>>, <<3, 4>> >> /\ result.miou = <<8, 11>>)

C10_Witness ==
  pc = "done" /\ hist = Example /\ result.miou = <<8, 11>>


\* the floors the scheduler may clamp to, on the scale of bases
Floors == {Rat(k, 2 * MaxEpochs) : k \in 1 .. MaxEpochs}

\* C11: the scheduler call of epoch t (1 <= t <= T = num_epochs) applies the
\* rate lr0 * (1 - t/T)^0.9 under the floor, and under every floor the rate
\* applied is not larger than the one applied at the previous epoch of the
\* invocation (at t = T the formula gives 0 and the floor is applied).
C11_PolyRateNonIncreasing ==
  [][sched_calls' = sched_calls + 1 =>
       /\ epoch' \in 1 .. args.num_epochs
       /\ optimizer'.state.lr = poly_lr_scheduler(epoch', args.num_epochs)
       /\ PolyBase(optimizer'.state.lr)
            = Rat(args.num_epochs - epoch', args.num_epochs)
       /\ \A m \in Floors :
            /\ ~RatGt(m, AppliedBase(optimizer'.state.lr, m))
            /\ sched_calls > 0 =>
                 ~RatGt(AppliedBase(optimizer'.state.lr, m),
                        AppliedBase(optimizer.state.lr, m))]_vars

C11_Witness ==
  /\ pc = "batches" /\ sched_calls = 3 /\ epoch = args.num_epochs
  /\ PolyBase(optimizer.state.lr) = <<0, 1>>
  /\ \A m \in Floors : AppliedBase(optimizer.state.lr, m) = m

\* the larger of two values; a NaN is no value
MaxOf(a, b) == IF RatGt(b, a) THEN b ELSE a

\* C12: within a train invocation max_miou starts at 0, changes only when a
\* validation returns, never decreases, and after a validation it is the
\* maximum of its previous value and the mean-IoU returned: so it is the
\* maximum of 0 and all the mean-IoU values returned so far.
C12_MaxMiouIsRunningMaximum ==
  [][/\ pc = "train" => max_miou' = <<0, 1>>
     /\ pc = "best" => /\ max_miou' = MaxOf(max_miou, result.miou)
                       /\ ~RatGt(max_miou, max_miou')
     /\ (pc \notin {"train", "best"} /\ pc' # "start") => max_miou' = max_miou]_vars

C12_Witness ==
  /\ pc = "best" /\ Len(val_epochs) = 2
  /\ max_miou = <<1, 1>> /\ result.miou = <<1, 2>>

Max0(n) == IF n > 0 THEN n ELSE 0

\* C13: a run that has entered the training loop ends: either an exception
\* ends it, or the loop executes max(0, num_epochs - curr_epoch) epochs and
\* main then runs the final validation exactly once and is done (also when
\* curr_epoch >= num_epochs and no epoch is trained).
C13_RunTerminates ==
  (pc = "train") ~>
     \/ pc = "crashed"
     \/ /\ pc = "done" /\ error = "none" /\ caller = "main"
        /\ Len(executed) = Max0(args.num_epochs - curr_epoch)
        /\ nvals = Len(val_epochs) + 1

C13_Witness ==
  /\ pc = "done" /\ error = "none" /\ loaded_checkpoint # None
  /\ curr_epoch >= args.num_epochs /\ executed = <<>> /\ nvals = 1

\* the train invocation of this run is over: it returned or an exception
\* raised inside it ended the run
TrainOver ==
  \/ TrainReturned
  \/ pc = "crashed" /\ error \in {"UnboundLocalError:92", "AttributeError:124",
                                  "AttributeError:139"}

\* optimizer steps restored from the checkpoint
LoadedSteps ==
  IF loaded_checkpoint = None THEN 0
  ELSE loaded_checkpoint.optimizer_state_dict.steps

\* C14: a train invocation executes the epochs curr_epoch + 1 .. num_epochs,
\* each once and in increasing order, and every batch of an epoch gets
\* exactly one batch step (one forward pass, one optimizer step, one scaler
\* update); nothing is retried and nothing is skipped.
C14_EveryEpochAndBatchOnce ==
  /\ \A k \in 1 .. Len(executed) : executed[k] = curr_epoch + k
  /\ executed # <<>> =>
       /\ step = NumTrainBatches * (Len(executed) - 1) + i
       /\ forwards = step /\ scaler = step
       /\ optimizer.state.steps = LoadedSteps + step
  /\ TrainOver =>
       /\ Len(executed) = Max0(args.num_epochs - curr_epoch)
       /\ executed # <<>> => i = NumTrainBatches

\* the train invocation of this run has begun an epoch and the run has not
\* yet been started again
InEpochs == executed # <<>>

\* C15: in every executed epoch the scheduler is called exactly once, with
\* t = the epoch's index and T = num_epochs, before the first batch step; the
\* rate it sets stays in the optimizer until the next epoch begins.
C15_ScheduledOncePerEpoch ==
  /\ sched_calls = Len(executed)
  /\ InEpochs =>
       /\ Last(executed) = epoch
       /\ optimizer.state.lr = poly_lr_scheduler(epoch, args.num_epochs)

C15_Witness ==
  /\ pc = "epoch_loop" /\ Len(executed) = 2 /\ sched_calls = 2
  /\ epoch = 2 /\ args.num_epochs = 3 /\ i = NumTrainBatches
  /\ optimizer.state.lr = poly_lr_scheduler(2, 3)

\* control is inside a call of val
InVal == pc \in {"val", "val_loop"}

\* C16: a step of val leaves the model's parameters, the optimizer state, the
\* scaler, the epoch counters and both files as they are; the one thing val
\* changes is the mode of the model, which its first step sets to inference
\* and which no later step of val sets back.
C16_ValidationFrame ==
  [][InVal =>
       /\ model'.params = model.params /\ model'.wrapped = model.wrapped
       /\ optimizer' = optimizer /\ scaler' = scaler
       /\ epoch' = epoch /\ curr_epoch' = curr_epoch /\ step' = step
       /\ latest' = latest /\ best' = best
       /\ ~model'.training]_vars

C16_Witness ==
  /\ pc = "best" /\ ~model.training /\ model.params = 2 * NumTrainBatches
  /\ optimizer.state.steps = 2 * NumTrainBatches /\ scaler = 2 * NumTrainBatches
  /\ epoch = 2 /\ latest # None /\ best # None /\ Len(precision_record) > 0

\* the per-image accuracies of the images s
PrecisionOf(s) ==
  [k \in 1 .. Len(s) |-> compute_global_accuracy(s[k].predict, s[k].label)]

\* C17: every call of val starts from an all-zero confusion matrix and an
\* empty precision record, so at each point of a call both hold exactly the
\* images of this call, and the (precision, mean-IoU) it returns is the one
\* of these images alone, whatever an earlier call accumulated or returned.
C17_AccumulatorsResetPerCall ==
  InValPass =>
    /\ hist = ValidateInOrder(seen, args.num_classes)
    /\ precision_record = PrecisionOf(seen)
    /\ pc = "done" =>
         result = [precision |-> np_mean(PrecisionOf(seen)),
                   miou |-> MeanIoU(ValidateInOrder(seen, args.num_classes))]

C17_Witness ==
  /\ pc = "done" /\ nvals = 2 /\ Len(seen) = 1
  /\ HistTotal(hist) = args.crop /\ result.miou = <<1, 1>>

\* C18: the checkpoint write, the best-model write and the resume succeed
\* whether or not the model is wrapped for multi-device execution: none of
\* them ends the run with an exception about the wrapper.
C18_TopologyIndependent ==
  error \notin {"AttributeError:124", "AttributeError:139", "AttributeError:227"}

\* C19: every batch step of the training loop runs with the model in
\* training mode and every forward pass of val with the model in inference
\* mode, also in the epochs that follow a validation.
C19_ModeMatchesLoop ==
  /\ pc = "batches" => model.training
  /\ pc = "val_loop" => ~model.training

C19_Witness ==
  /\ pc = "batches" /\ i = 1 /\ model.training
  /\ epoch = 2 /\ val_epochs = <<1>> /\ nvals = 1

\* C20: the checkpoint holds the epoch, the model state and the optimizer
\* state and no max_miou; every train invocation begins with max_miou = 0;
\* so in a run resumed from a checkpoint the first validation that returns a
\* mean-IoU > 0 writes the best-model file, whatever file was there.
C20_BestStateNotResumed ==
  [][/\ latest' # None =>
          DOMAIN latest' = {"epoch", "model_state_dict", "optimizer_state_dict"}
     /\ pc = "train" => max_miou' = <<0, 1>>
     /\ (pc = "best" /\ loaded_checkpoint # None /\ best_writes = 0
           /\ RatGt(result.miou, <<0, 1>>)) =>
          /\ best' = module_state_dict(model)
          /\ best_writes' = 1
          /\ max_miou' = result.miou]_vars

\* a resumed run finds the best-model file of the earlier run in place and
\* its first validation returns 1/2
C20_Witness ==
  /\ run = "rerun" /\ loaded_checkpoint # None /\ pc = "best"
  /\ best # None /\ best.params < model.params
  /\ best_writes = 0 /\ max_miou = <<0, 1>> /\ result.miou = <<1, 2>>
====
